---- MODULE Spec2Model ----
(***************************************************************************)
(* Model of GithubService.get_project_structure_async, its tree walker     *)
(* _fetch_repo_structure_async and its formatter _format_tree_structure    *)
(* (app/modules/code_provider/github/github_service.py).                   *)
(*                                                                         *)
(* Python strings are sequences of one-character strings, so that split,   *)
(* strip, startswith, endswith, slicing, join and the f-string of the      *)
(* cache key are computed character by character.  Python's None is the    *)
(* value None below, which is no string of characters.                     *)
(***************************************************************************)
EXTENDS Integers, Sequences, FiniteSets, TLC

(***************************************************************************)
(* Python values and string operations                                     *)
(***************************************************************************)
\* None where a str is expected, where bytes are expected (redis.get) and
\* where a dict is expected (the project lookup).
None == <<"<None>">>
NoBytes == <<-1>>
NoProject == [absent |-> TRUE]

\* Python truthiness of an Optional[str] and of an Optional[bytes].
Truthy(v) == v # None /\ v # <<>>
TruthyBytes(b) == b # NoBytes /\ b # <<>>

\* Code points of the characters that occur in the model (ASCII).
Ord(c) ==
    CASE c = "\n" -> 10 [] c = " " -> 32 [] c = "." -> 46 [] c = "/" -> 47
      [] c = "4" -> 52 [] c = ":" -> 58 [] c = "G" -> 71 [] c = "N" -> 78
      [] c = "P" -> 80 [] c = "_" -> 95
      [] c = "a" -> 97 [] c = "b" -> 98 [] c = "c" -> 99 [] c = "d" -> 100
      [] c = "e" -> 101 [] c = "f" -> 102 [] c = "g" -> 103 [] c = "h" -> 104
      [] c = "i" -> 105 [] c = "j" -> 106 [] c = "l" -> 108 [] c = "n" -> 110
      [] c = "o" -> 111 [] c = "p" -> 112 [] c = "r" -> 114 [] c = "s" -> 115
      [] c = "t" -> 116 [] c = "u" -> 117 [] c = "v" -> 118 [] c = "x" -> 120
      [] c = "y" -> 121 [] c = "z" -> 122

Alphabet ==
    {"\n", " ", ".", "/", "4", ":", "G", "N", "P", "_", "a", "b", "c", "d", "e", "f",
     "g", "h", "i", "j", "l", "n", "o", "p", "r", "s", "t", "u", "v", "x",
     "y", "z"}

Chr(n) == CHOOSE c \in Alphabet : Ord(c) = n

\* str.encode("utf-8") as redis-py applies it to a str value, and
\* bytes.decode("utf-8"): ASCII text is one byte per character.
Encode(s) == [i \in 1..Len(s) |-> Ord(s[i])]
Decode(b) == [i \in 1..Len(b) |-> Chr(b[i])]

\* s[n:] with Python's clamping of the slice bounds.
SliceFrom(s, n) == IF n >= Len(s) THEN <<>> ELSE SubSeq(s, n + 1, Len(s))

StartsWith(s, p) == Len(p) <= Len(s) /\ SubSeq(s, 1, Len(p)) = p
EndsWith(s, p) ==
    Len(p) <= Len(s) /\ SubSeq(s, Len(s) - Len(p) + 1, Len(s)) = p

\* s.strip("/")
RECURSIVE LStrip(_)
LStrip(s) == IF s # <<>> /\ Head(s) = "/" THEN LStrip(Tail(s)) ELSE s
RECURSIVE RStrip(_)
RStrip(s) ==
    IF s # <<>> /\ s[Len(s)] = "/" THEN RStrip(SubSeq(s, 1, Len(s) - 1)) ELSE s
Strip(s) == RStrip(LStrip(s))

\* s.split(sep) for a one-character sep: a list with one more element than
\* s has separators.
RECURSIVE SplitAcc(_, _, _, _)
SplitAcc(s, sep, cur, acc) ==
    IF s = <<>> THEN Append(acc, cur)
    ELSE IF Head(s) = sep THEN SplitAcc(Tail(s), sep, <<>>, Append(acc, cur))
    ELSE SplitAcc(Tail(s), sep, Append(cur, Head(s)), acc)
Split(s, sep) == SplitAcc(s, sep, <<>>, <<>>)

\* sep.join(parts)
RECURSIVE Join(_, _)
Join(parts, sep) ==
    IF parts = <<>> THEN <<>>
    ELSE IF Len(parts) = 1 THEN parts[1]
    ELSE parts[1] \o sep \o Join(Tail(parts), sep)

\* s * n
RECURSIVE Repeat(_, _)
Repeat(s, n) == IF n <= 0 THEN <<>> ELSE s \o Repeat(s, n - 1)

\* Python's str comparison: lexicographic by code point, a proper prefix first.
RECURSIVE StrLess(_, _)
StrLess(a, b) ==
    IF b = <<>> THEN FALSE
    ELSE IF a = <<>> THEN TRUE
    ELSE IF Ord(Head(a)) # Ord(Head(b)) THEN Ord(Head(a)) < Ord(Head(b))
    ELSE StrLess(Tail(a), Tail(b))

\* str(path) inside an f-string: None prints as the four characters "None".
StrOf(v) == IF v = None THEN <<"N", "o", "n", "e">> ELSE v

(***************************************************************************)
(* The repository behind the handle: PyGithub's Repository.get_contents    *)
(***************************************************************************)
\* Path of the entry below directory path dir with the given name.
Under(dir, name) == IF dir = <<>> THEN name ELSE dir \o <<"/">> \o name

Dir(p) == [type |-> "dir", path |-> p]
File(p) == [type |-> "file", path |-> p]

\* The directory part of a path ("" for a top-level entry).
ParentOf(p) ==
    LET segs == Split(p, "/")
    IN  Join(SubSeq(segs, 1, Len(segs) - 1), <<"/">>)

\* ContentFile.name
NameOf(p) == LET segs == Split(p, "/") IN segs[Len(segs)]

pA == <<"a">>
pAB == Under(pA, <<"b">>)
pABC == Under(pAB, <<"c">>)
pABCD == Under(pABC, <<"d">>)
pABCDE == Under(pABCD, <<"e">>)
pISvg == <<"i", ".", "s", "v", "g">>
pBTxt == <<"b", ".", "t", "x", "t">>
pZz == <<"z", "z">>

\* The files a modelled repository may hold: b.txt, a/c.png, a/b/c/d/e/f
\* and i.svg/h.PNG.
Files ==
    { pBTxt, Under(pA, <<"c", ".", "p", "n", "g">>), Under(pABCDE, <<"f">>),
      Under(pISvg, <<"h", ".", "P", "N", "G">>) }

\* The directories above a path.
RECURSIVE Ancestors(_)
Ancestors(p) ==
    IF ParentOf(p) = <<>> THEN {} ELSE {ParentOf(p)} \cup Ancestors(ParentOf(p))

\* A repository holds files, and the directories that lead to them (git
\* keeps no empty directory).
RepoOf(files) ==
    {File(f) : f \in files} \cup {Dir(d) : d \in UNION {Ancestors(f) : f \in files}}
Repos == {RepoOf(files) : files \in SUBSET Files}
Universe == RepoOf(Files)

\* ContentFile objects as the walker reads them: type, name, path.
ContentFile(e) == [type |-> e.type, name |-> NameOf(e.path), path |-> e.path]

\* The entries of a set as a list in ascending order of path (the order in
\* which the contents API lists a directory).
RECURSIVE Listing(_)
Listing(S) ==
    IF S = {} THEN <<>>
    ELSE LET m == CHOOSE x \in S : \A y \in S : y = x \/ StrLess(x.path, y.path)
         IN  <<ContentFile(m)>> \o Listing(S \ {m})

\* repo.get_contents(path): a list for a directory (the root is ""), one
\* ContentFile for a file, an exception for a path that does not exist or
\* whose request fails.
GetContents(repository, broken, path) ==
    IF path \in broken THEN [raised |-> TRUE]
    ELSE IF path = <<>> \/ Dir(path) \in repository
    THEN [raised |-> FALSE, list |-> TRUE,
          items |-> Listing({e \in repository : ParentOf(e.path) = path})]
    ELSE IF File(path) \in repository
    THEN [raised |-> FALSE, list |-> FALSE, items |-> ContentFile(File(path))]
    ELSE [raised |-> TRUE]

\* repo.name of the repository "o/r"
RepoName == <<"r">>

(***************************************************************************)
(* _format_tree_structure                                                  *)
(***************************************************************************)
DirectoryNode(name, children) ==
    [type |-> "directory", name |-> name, children |-> children]
FileEntry(name, path) == [type |-> "file", name |-> name, path |-> path]

\* A formatter that emits the children in the order the walker left them.
unsorted(children) == children

\* sorted(children, key=lambda x: x["name"]): a stable sort by name.
RECURSIVE InsertByName(_, _)
InsertByName(done, x) ==
    IF done = <<>> THEN <<x>>
    ELSE IF StrLess(x.name, Head(done).name) THEN <<x>> \o done
    ELSE <<Head(done)>> \o InsertByName(Tail(done), x)
RECURSIVE SortAcc(_, _)
SortAcc(rest, done) ==
    IF rest = <<>> THEN done
    ELSE SortAcc(Tail(rest), InsertByName(done, Head(rest)))
sorted(children) == SortAcc(children, <<>>)

\* A formatter that indents by one space per level.
indent_by_one(depth) == Repeat(<<" ">>, depth)

\* indent = "  " * depth
indent(depth) == Repeat(<<" ", " ">>, depth)

\* if depth > 0: output.append(f"{indent}{node['name']}")
own_line(node, depth) ==
    IF depth > 0 THEN <<indent(depth) \o node.name>> ELSE <<>>

\* _format_node(node, depth): the list of output lines of a node.
RECURSIVE format_node(_, _)
RECURSIVE format_children(_, _)
format_node(node, depth) ==
    own_line(node, depth)
      \o (IF "children" \in DOMAIN node
          THEN format_children(sorted(node.children), depth + 1)
          ELSE <<>>)
format_children(children, depth) ==
    IF children = <<>> THEN <<>>
    ELSE format_node(Head(children), depth)
           \o format_children(Tail(children), depth)

format_tree_structure(structure) == Join(format_node(structure, 0), <<"\n">>)

(***************************************************************************)
(* _fetch_repo_structure_async: the parts that compute without waiting     *)
(***************************************************************************)
max_depth == 4

exclude_extensions ==
    << <<"p", "n", "g">>, <<"j", "p", "g">>, <<"j", "p", "e", "g">>,
       <<"g", "i", "f">>, <<"b", "m", "p">>, <<"t", "i", "f", "f">>,
       <<"w", "e", "b", "p">>, <<"i", "c", "o">>, <<"s", "v", "g">>,
       <<"m", "p", "4">>, <<"a", "v", "i">>, <<"m", "o", "v">>,
       <<"w", "m", "v">>, <<"f", "l", "v">>, <<"i", "p", "y", "n", "b">>,
       <<"z", "l", "i", "b">> >>

\* A walker that trusts the depth its caller passed.
passed_depth(path, current_depth, base_path) == current_depth

\* The depth the walker works with: recomputed from path and base_path, the
\* current_depth argument is overwritten.
computed_depth(path, current_depth, base_path) ==
    IF Truthy(base_path)
    THEN LET relative_path == Strip(SliceFrom(path, Len(base_path)))
         IN  IF relative_path # <<>> THEN Len(Split(relative_path, "/")) ELSE 0
    ELSE IF path # <<>> THEN Len(Split(path, "/")) ELSE 0

\* path.split("/")[-1] or repo.name
node_name(path) ==
    LET last == NameOf(path) IN IF last # <<>> THEN last ELSE RepoName

truncated_node(path) ==
    DirectoryNode(node_name(path),
                  << FileEntry(<<".", ".", ".">>,
                               <<"t", "r", "u", "n", "c", "a", "t", "e", "d">>) >>)

\* A filter that looks at the name alone, whatever the type of the entry.
keeps_by_name(item) ==
    ~ \E i \in DOMAIN exclude_extensions :
         EndsWith(item.name, exclude_extensions[i])

\* The filter on a listing: directories stay, other entries stay unless
\* their name ends with an excluded extension.
keeps(item) ==
    \/ item.type = "dir"
    \/ ~ \E i \in DOMAIN exclude_extensions :
            EndsWith(item.name, exclude_extensions[i])

\* if base_path and not item.path.startswith(base_path): continue
in_scope(item, base_path) ==
    ~ (Truthy(base_path) /\ ~ StartsWith(item.path, base_path))

\* The entries of a listing the loop processes.
retained(contents, base_path) ==
    LET Pass(item) == keeps(item) /\ in_scope(item, base_path)
    IN  SelectSeq(contents, Pass)

\* contents of a listing result, a lone ContentFile made a one-element list.
as_list(got) == IF got.list THEN got.items ELSE <<got.items>>

IsDirItem(item) == item.type = "dir"
IsFileItem(item) == item.type # "dir"

\* structure["children"] after the loop: the file entries, in listing order.
file_children(items) ==
    LET fs == SelectSeq(items, IsFileItem)
    IN  [i \in 1..Len(fs) |-> FileEntry(fs[i].name, fs[i].path)]

\* The paths of the sub-walks the loop creates, in listing order.
task_paths(items) ==
    LET ds == SelectSeq(items, IsDirItem)
    IN  [i \in 1..Len(ds) |-> ds[i].path]

\* The walker coroutine of one path.
Frame(current_depth) ==
    [current_depth |-> current_depth, status |-> "listing", files |-> <<>>,
     tasks |-> <<>>, result |-> [type |-> "none"]]
NoFrame ==
    [current_depth |-> 0, status |-> "absent", files |-> <<>>, tasks |-> <<>>,
     result |-> [type |-> "none"]]

\* A coroutine runs to its first await: it computes its depth and either
\* returns the truncated node or hands its listing to the executor.
entered(path, current_depth, base_path) ==
    LET depth == computed_depth(path, current_depth, base_path)
    IN  IF depth >= max_depth
        THEN [Frame(current_depth) EXCEPT !.status = "done",
                                          !.result = truncated_node(path)]
        ELSE Frame(depth)

(***************************************************************************)
(* State                                                                   *)
(***************************************************************************)
VARIABLES
    repo,        \* the entries of the GitHub repository "o/r"
    failing,     \* the paths whose get_contents request throws
    project,     \* what get_project_from_db_by_id returns for the project
    cache,       \* redis: key -> [value, ttl]
    pc,          \* where the one call in flight stands
    req,         \* its arguments: [project_id, path]
    frames,      \* its walker coroutines, by path
    listed,      \* the paths its walker has called get_contents on, in order
    steps,       \* the steps it has taken past its cache read, in order
    outcome,     \* what it returned or raised
    hit,         \* whether its cache read was a hit
    cache0,      \* the cache as it was when the call began
    prev,        \* per scope path, of the last call that returned: its output
                 \* (value), whether the entry it wrote or read is still
                 \* within its TTL (fresh), whether it walked (walked)
    stored_by,   \* per cache key: the scope path of the call that wrote it
    calls,       \* the number of calls made so far
    tree,        \* the argument of a call of _format_tree_structure alone
    text         \* what that call returned

service_vars ==
    <<repo, failing, project, cache, pc, req, frames, listed, steps, outcome,
      hit, cache0, prev, stored_by, calls>>
format_vars == <<tree, text>>
vars == <<service_vars, format_vars>>

\* Bounds of the model.
MaxCalls == 2

ProjectId == <<"p">>
RepoFullName == <<"o", "/", "r">>

\* The scope paths a call may pass: absent, "", "None", a directory, a file,
\* a path that no repository holds.
ScopePaths == {None, <<>>, StrOf(None), pA, pBTxt, pZz}

\* The paths whose listing may be made to throw.
FailCandidates == {pA, pISvg}

Projects ==
    {NoProject, [project_name |-> <<>>], [project_name |-> RepoFullName]}

CacheTtl == 3600

\* f"project_structure:{project_id}:exact_path_{path}:depth_{self.max_depth}"
cache_key(project_id, path) ==
    <<"p", "r", "o", "j", "e", "c", "t", "_", "s", "t", "r", "u", "c", "t",
      "u", "r", "e", ":">> \o project_id
      \o <<":", "e", "x", "a", "c", "t", "_", "p", "a", "t", "h", "_">>
      \o StrOf(path)
      \o <<":", "d", "e", "p", "t", "h", "_">> \o <<Chr(48 + max_depth)>>

\* self.redis.get(key)
redis_get(key) == cache[key].value

\* self.redis.set(key, value): the entry is stored with no expiry.
redis_set_without_ttl(store, key, ttl, value) ==
    [store EXCEPT ![key] = [value |-> Encode(value), ttl |-> 0]]

\* self.redis.setex(key, ttl, value)
redis_setex(store, key, ttl, value) ==
    [store EXCEPT ![key] = [value |-> Encode(value), ttl |-> ttl]]

\* The keys the modelled calls can form, and a key that holds nothing.
Keys == {cache_key(ProjectId, s) : s \in ScopePaths}
NoEntry == [value |-> NoBytes, ttl |-> 0]

\* The paths a walker coroutine can be created for.
WalkPaths == {<<>>} \cup {e.path : e \in Universe} \cup (ScopePaths \ {None})

Ok(value) == [kind |-> "ok", value |-> value]
HTTPException(status_code, detail) ==
    [kind |-> "http", status_code |-> status_code, detail |-> detail]
Raised(message) == [kind |-> "exception", message |-> message]
NoOutcome == [kind |-> "none"]
NoPrev == [value |-> None, fresh |-> FALSE, walked |-> FALSE]
NoRequest == [project_id |-> <<>>, path |-> <<>>]

NoFrames == [p \in WalkPaths |-> NoFrame]

Range(f) == {f[i] : i \in DOMAIN f}

Init ==
    /\ repo \in Repos
    /\ failing \in SUBSET FailCandidates
    /\ project \in Projects
    /\ cache = [k \in Keys |-> NoEntry]
    /\ pc = "idle"
    /\ req = NoRequest
    /\ frames = NoFrames
    /\ listed = <<>>
    /\ steps = <<>>
    /\ outcome = NoOutcome
    /\ hit = FALSE
    /\ cache0 = cache
    /\ prev = [s \in ScopePaths |-> NoPrev]
    /\ stored_by = [k \in Keys |-> None]
    /\ calls = 0
    /\ tree = DirectoryNode(RepoName, <<>>)
    /\ text = None

(***************************************************************************)
(* get_project_structure_async                                             *)
(***************************************************************************)
\* The call ends: it returns or raises `result`.
Ends(result) ==
    /\ outcome' = result
    /\ pc' = "done"

\* A call arrives and reads the cache (up to the first await).  The read
\* itself may throw (the connection to redis is lost).
Call(project_id, path) ==
    /\ pc = "idle"
    /\ calls < MaxCalls
    /\ calls' = calls + 1
    /\ req' = [project_id |-> project_id, path |-> path]
    /\ UNCHANGED <<cache0, frames, listed, steps>>
    /\ LET cached_structure == redis_get(cache_key(project_id, path))
       IN  \/ /\ TruthyBytes(cached_structure)
              /\ hit' = TRUE
              /\ Ends(Ok(Decode(cached_structure)))
           \/ /\ ~ TruthyBytes(cached_structure)
              /\ hit' = FALSE
              /\ outcome' = NoOutcome
              /\ pc' = "lookup"
           \/ /\ hit' = FALSE
              /\ Ends(Raised("redis.get: connection error"))
    /\ UNCHANGED <<repo, failing, project, cache, prev, stored_by>>
    /\ UNCHANGED format_vars

\* The failure the checks on the looked-up project raise, if any.
lookup_failure_404(record) ==
    IF record = NoProject \/ ~ Truthy(record.project_name)
    THEN HTTPException(404, <<"Project not found">>)
    ELSE NoOutcome

\* if not project: raise 404; if not repo_name: raise 400
lookup_failure(record) ==
    IF record = NoProject
    THEN HTTPException(404, <<"Project not found">>)
    ELSE IF ~ Truthy(record.project_name)
    THEN HTTPException(400, <<"Project has no associated GitHub repository">>)
    ELSE NoOutcome

\* await self.project_manager.get_project_from_db_by_id(project_id) and the
\* two checks that follow it; the lookup itself may throw.
Lookup ==
    /\ pc = "lookup"
    /\ \/ /\ lookup_failure(project) # NoOutcome
          /\ Ends(lookup_failure(project))
          /\ steps' = Append(steps, "lookup")
       \/ /\ lookup_failure(project) = NoOutcome
          /\ pc' = "get_repo"
          /\ steps' = Append(steps, "lookup")
          /\ UNCHANGED outcome
       \/ /\ Ends(Raised("get_project_from_db_by_id: database error"))
          /\ UNCHANGED steps
    /\ UNCHANGED <<repo, failing, project, cache, req, frames, listed, hit,
                   cache0, prev, stored_by, calls>>
    /\ UNCHANGED format_vars

\* github, repo = self.get_repo(repo_name): the handle, or the 404 that
\* get_repo raises when both the authenticated and the public access fail.
GetRepo ==
    /\ pc = "get_repo"
    /\ \/ /\ pc' = "probe"
          /\ steps' = Append(steps, "get_repo")
          /\ UNCHANGED outcome
       \/ /\ Ends(HTTPException(404,
                    <<"Repository ", RepoFullName,
                      " not found or inaccessible on GitHub">>))
          /\ UNCHANGED steps
    /\ UNCHANGED <<repo, failing, project, cache, req, frames, listed, hit,
                   cache0, prev, stored_by, calls>>
    /\ UNCHANGED format_vars

\* The path the walk of the call in flight starts from: path or "".
start_path == IF Truthy(req.path) THEN req.path ELSE <<>>

\* An orchestrator without the existence probe.
probe_skipped(path) == FALSE

\* if path: try repo.get_contents(path) except Exception
probe_raises(path) ==
    Truthy(path) /\ GetContents(repo, failing, path).raised

\* The existence probe, then the call of the walker on (path or "") with
\* current_depth=0 and base_path=path.
Probe ==
    /\ pc = "probe"
    /\ LET did == IF Truthy(req.path) THEN Append(steps, "probe") ELSE steps
       IN  \/ /\ probe_raises(req.path)
              /\ Ends(HTTPException(404,
                        <<"Path ", req.path, " not found in repository">>))
              /\ steps' = did
              /\ UNCHANGED frames
           \/ /\ ~ probe_raises(req.path)
              /\ frames' = [frames EXCEPT ![start_path] =
                                             entered(start_path, 0, req.path)]
              /\ steps' = Append(did, "walk")
              /\ pc' = "walk"
              /\ UNCHANGED outcome
    /\ UNCHANGED <<repo, failing, project, cache, req, listed, hit, cache0,
                   prev, stored_by, calls>>
    /\ UNCHANGED format_vars

(***************************************************************************)
(* _fetch_repo_structure_async as coroutines                               *)
(***************************************************************************)
\* except Exception as e: logger.error(...); return structure
listing_failed(path) == DirectoryNode(node_name(path), <<>>)

\* A gather that gives up its results when one sub-walk's listing failed.
gathered_unless_failed(files, tasks, done) ==
    IF \E i \in 1..Len(tasks) : GetContents(repo, failing, tasks[i]).raised
    THEN files
    ELSE files \o [i \in 1..Len(tasks) |-> done[tasks[i]].result]

\* children = await asyncio.gather(*tasks); structure["children"].extend(...):
\* the results in the order of the tasks, after the file entries.
gathered(files, tasks, done) ==
    files \o [i \in 1..Len(tasks) |-> done[tasks[i]].result]

\* The listing of a path comes back from the executor: the coroutine
\* filters it, appends the file entries and creates the sub-walks, or
\* catches the exception of the listing.
WalkListed(path) ==
    /\ pc = "walk"
    /\ frames[path].status = "listing"
    /\ listed' = Append(listed, path)
    /\ LET got == GetContents(repo, failing, path)
           items == retained(as_list(got), req.path)
           tasks == task_paths(items)
           files == file_children(items)
       IN  \/ /\ got.raised
              /\ frames' = [frames EXCEPT ![path].status = "done",
                                          ![path].result = listing_failed(path)]
           \/ /\ ~ got.raised
              /\ tasks = <<>>
              /\ frames' =
                   [frames EXCEPT
                      ![path].status = "done",
                      ![path].files = files,
                      ![path].result = DirectoryNode(node_name(path), files)]
           \/ /\ ~ got.raised
              /\ tasks # <<>>
              /\ frames' =
                   [q \in WalkPaths |->
                      IF q = path
                      THEN [frames[q] EXCEPT !.status = "gather",
                                             !.files = files, !.tasks = tasks]
                      ELSE IF q \in Range(tasks)
                      THEN entered(q, frames[path].current_depth, req.path)
                      ELSE frames[q]]
    /\ UNCHANGED <<repo, failing, project, cache, pc, req, steps, outcome,
                   hit, cache0, prev, stored_by, calls>>
    /\ UNCHANGED format_vars

\* All sub-walks of a path are done: gather returns and the coroutine
\* returns its structure.
WalkGather(path) ==
    /\ pc = "walk"
    /\ frames[path].status = "gather"
    /\ \A q \in Range(frames[path].tasks) : frames[q].status = "done"
    /\ frames' =
         [frames EXCEPT
            ![path].status = "done",
            ![path].result =
               DirectoryNode(node_name(path),
                             gathered(frames[path].files, frames[path].tasks,
                                      frames))]
    /\ UNCHANGED <<repo, failing, project, cache, pc, req, listed, steps,
                   outcome, hit, cache0, prev, stored_by, calls>>
    /\ UNCHANGED format_vars

\* The walk has returned: format, store for an hour, return.  The write to
\* redis may throw, which the handler wraps in a 500.
Finish ==
    /\ pc = "walk"
    /\ frames[start_path].status = "done"
    /\ LET structure == frames[start_path].result
           formatted_structure == format_tree_structure(structure)
           key == cache_key(req.project_id, req.path)
       IN  \/ /\ cache' = redis_setex(cache, key, CacheTtl, formatted_structure)
              /\ stored_by' = [stored_by EXCEPT ![key] = req.path]
              /\ Ends(Ok(formatted_structure))
           \/ /\ Ends(HTTPException(500,
                        <<"Failed to fetch project structure: ",
                          "redis.setex: connection error">>))
              /\ UNCHANGED <<cache, stored_by>>
    /\ UNCHANGED <<repo, failing, project, req, frames, listed, steps, hit,
                   cache0, prev, calls>>
    /\ UNCHANGED format_vars

\* The caller has the result; the service is ready for the next call.
Return ==
    /\ pc = "done"
    /\ pc' = "idle"
    /\ prev' = IF outcome.kind = "ok"
               THEN [prev EXCEPT ![req.path] =
                       [value |-> outcome.value, fresh |-> TRUE,
                        walked |-> ~ hit]]
               ELSE prev
    /\ req' = NoRequest
    /\ frames' = NoFrames
    /\ listed' = <<>>
    /\ steps' = <<>>
    /\ outcome' = NoOutcome
    /\ hit' = FALSE
    /\ cache0' = cache
    /\ UNCHANGED <<repo, failing, project, cache, stored_by, calls>>
    /\ UNCHANGED format_vars

(***************************************************************************)
(* The environment, between calls                                          *)
(***************************************************************************)
\* The TTL of an entry runs out and redis drops it.
Expire(key) ==
    /\ pc = "idle"
    /\ cache[key] # NoEntry
    /\ cache' = [cache EXCEPT ![key] = NoEntry]
    /\ cache0' = cache'
    /\ stored_by' = [stored_by EXCEPT ![key] = None]
    /\ prev' = [s \in ScopePaths |->
                  IF cache_key(ProjectId, s) = key
                  THEN [prev[s] EXCEPT !.fresh = FALSE]
                  ELSE prev[s]]
    /\ UNCHANGED <<repo, failing, project, pc, req, frames, listed, steps,
                   outcome, hit, calls>>
    /\ UNCHANGED format_vars

\* The project record is created, deleted, linked or unlinked.
SetProject(record) ==
    /\ pc = "idle"
    /\ record # project
    /\ project' = record
    /\ UNCHANGED <<repo, failing, cache, pc, req, frames, listed, steps,
                   outcome, hit, cache0, prev, stored_by, calls>>
    /\ UNCHANGED format_vars

Next ==
    \/ \E path \in ScopePaths : Call(ProjectId, path)
    \/ Lookup
    \/ GetRepo
    \/ Probe
    \/ \E path \in WalkPaths : WalkListed(path)
    \/ \E path \in WalkPaths : WalkGather(path)
    \/ Finish
    \/ Return
    \/ \E key \in Keys : Expire(key)
    \/ \E record \in Projects : SetProject(record)

Spec == Init /\ [][Next]_vars

(***************************************************************************)
(* Properties of the service                                               *)
(***************************************************************************)
\* The lines of an output text ("" has none).
LinesOf(t) == IF t = <<>> THEN <<>> ELSE Split(t, "\n")

RECURSIVE LeadingSpaces(_)
LeadingSpaces(line) ==
    IF line # <<>> /\ Head(line) = " " THEN 1 + LeadingSpaces(Tail(line)) ELSE 0
LevelOfLine(line) == LeadingSpaces(line) \div 2
NameOnLine(line) == SliceFrom(line, LeadingSpaces(line))

\* The number of "/"-separated segments of path below the start of the walk.
SlashCount(str) == Cardinality({i \in 1..Len(str) : str[i] = "/"})
RelativeDepth(path, base_path) ==
    IF path = (IF Truthy(base_path) THEN base_path ELSE <<>>) THEN 0
    ELSE 1 + SlashCount(IF Truthy(base_path)
                        THEN SliceFrom(path, Len(base_path) + 1)
                        ELSE path)

HasExcludedExtension(name) ==
    \E i \in DOMAIN exclude_extensions : EndsWith(name, exclude_extensions[i])

WasListed(path) == \E i \in DOMAIN listed : listed[i] = path
ListingRaised(path) == GetContents(repo, failing, path).raised
Took(step) == \E i \in DOMAIN steps : steps[i] = step

CacheReadFailed == outcome = Raised("redis.get: connection error")
SetexFailed ==
    outcome = HTTPException(500, <<"Failed to fetch project structure: ",
                                   "redis.setex: connection error">>)
ReturnedFromWalk == pc = "done" /\ outcome.kind = "ok" /\ ~ hit

\* C1: a call with the project id and scope path of an earlier call that
\* returned, made while that call's cache entry is within its TTL, is a
\* cache hit: it returns the same text and lists nothing, whatever the text
\* (the empty outline included).
C1_RepeatedCallIsAHit ==
    (pc # "idle" /\ prev[req.path].fresh /\ ~ CacheReadFailed) =>
        /\ hit
        /\ listed = <<>>
        /\ (pc = "done" => outcome = Ok(prev[req.path].value))

\* C2: a walker coroutine on a path of relative depth >= 4 has returned the
\* node whose only child is the file entry "..." / "truncated" and its path
\* is never listed, whatever current_depth it was passed; no path of relative
\* depth >= 4 is among the listed ones.
C2_DeepPathsAreTruncated ==
    /\ \A p \in WalkPaths :
          (frames[p].status # "absent" /\ RelativeDepth(p, req.path) >= 4) =>
              /\ frames[p].status = "done"
              /\ frames[p].result =
                   DirectoryNode(NameOf(p),
                     << FileEntry(<<".", ".", ".">>,
                          <<"t", "r", "u", "n", "c", "a", "t", "e", "d">>) >>)
              /\ ~ WasListed(p)
    /\ \A i \in DOMAIN listed : RelativeDepth(listed[i], req.path) < 4

\* A scoped walk has truncated a path of relative depth 4 to which the
\* depth 3 of its parent was passed.
C2_Witness ==
    /\ Truthy(req.path)
    /\ \E p \in WalkPaths :
          /\ frames[p].status = "done"
          /\ RelativeDepth(p, req.path) = 4
          /\ frames[p].current_depth = 3
    /\ \E i \in DOMAIN listed : RelativeDepth(listed[i], req.path) = 3

\* C3: whichever listings throw, the walk returns: a request that reached the
\* walk fails only if the later write to the cache fails.  Every coroutine
\* that has returned gave a directory node; the node of a directory whose
\* listing threw has no children; the node of a directory whose listing
\* succeeded holds the entry of each of its files that the filter keeps and
\* the returned node of each of its subdirectories, also when the listing of
\* a sibling or of a subdirectory threw.
C3_ListingFailuresAreLocal ==
    /\ (pc = "done" /\ Took("walk")) => (outcome.kind = "ok" \/ SetexFailed)
    /\ \A p \in WalkPaths :
          frames[p].status = "done" =>
              /\ frames[p].result.type = "directory"
              /\ frames[p].result.name = node_name(p)
              /\ (WasListed(p) /\ ListingRaised(p)) =>
                     frames[p].result.children = <<>>
              /\ (WasListed(p) /\ ~ ListingRaised(p)) =>
                     \A e \in repo :
                        ParentOf(e.path) = p =>
                          IF e.type = "dir"
                          THEN /\ frames[e.path].status = "done"
                               /\ frames[e.path].result
                                    \in Range(frames[p].result.children)
                          ELSE HasExcludedExtension(NameOf(e.path))
                                 \/ FileEntry(NameOf(e.path), e.path)
                                      \in Range(frames[p].result.children)

\* A walk has returned in which the listing of directory a threw while its
\* sibling i.svg, which holds a file, was listed.
C3_Witness ==
    /\ ReturnedFromWalk
    /\ req.path = None
    /\ WasListed(pA) /\ ListingRaised(pA)
    /\ WasListed(pISvg) /\ ~ ListingRaised(pISvg)
    /\ \E e \in repo : ParentOf(e.path) = pISvg
    /\ \E e \in repo : ParentOf(e.path) = pA

\* C4 as claimed: a call for a project whose record does not exist, or exists
\* without a repository name, fails with 404 (calls in which redis or the
\* database themselves fail aside).
C4_MissingProjectOrRepoIs404 ==
    (pc = "done" /\ outcome.kind # "exception"
       /\ (project = NoProject \/ ~ Truthy(project.project_name))) =>
        (outcome.kind = "http" /\ outcome.status_code = 404)

\* C4 as amended: on a cache miss whose project lookup returns, the call
\* fails with 404 "Project not found" when there is no record and with 400
\* when the record has no repository name; it then returns no text, walks
\* nothing and leaves the cache alone.
C4_MissingProjectIs404MissingRepoIs400 ==
    (pc = "done" /\ ~ hit /\ outcome.kind # "exception") =>
        /\ project = NoProject =>
              outcome = HTTPException(404, <<"Project not found">>)
        /\ (project # NoProject /\ ~ Truthy(project.project_name)) =>
              outcome = HTTPException(400,
                          <<"Project has no associated GitHub repository">>)
        /\ (project = NoProject \/ ~ Truthy(project.project_name)) =>
              /\ listed = <<>>
              /\ frames = NoFrames
              /\ cache = cache0

\* A call for a project without a repository name has failed with 400.
C4_Witness ==
    /\ pc = "done"
    /\ project # NoProject
    /\ ~ Truthy(project.project_name)
    /\ outcome.kind = "http"
    /\ outcome.status_code = 400

\* C5: a call that fails raises an HTTPException: no other exception escapes.
C5_EveryFailureIsAnHTTPException ==
    (pc = "done" /\ outcome.kind # "ok") => outcome.kind = "http"

\* C6: a call that hits the cache is given text that a call with the same
\* scope path stored.
C6_HitReturnsOwnScopeEntry ==
    (pc = "done" /\ hit) =>
        stored_by[cache_key(req.project_id, req.path)] = req.path

\* C7: a call that missed the cache, resolved its repository handle and
\* carries a scope path that is not in the repository fails with 404 after
\* the probe: it never reaches the walk, lists nothing and writes nothing to
\* the cache.  And a call with a scope path walks only after its probe.
C7_MissingScopePathIs404BeforeWalk ==
    /\ (pc \in {"walk", "done"} /\ ~ hit /\ Truthy(req.path)
          /\ Took("get_repo")
          /\ Dir(req.path) \notin repo /\ File(req.path) \notin repo) =>
            /\ pc = "done"
            /\ outcome = HTTPException(404,
                 <<"Path ", req.path, " not found in repository">>)
            /\ steps = <<"lookup", "get_repo", "probe">>
            /\ listed = <<>>
            /\ frames = NoFrames
            /\ cache = cache0
    /\ (Took("walk") /\ Truthy(req.path)) =>
            steps = <<"lookup", "get_repo", "probe", "walk">>

\* A call scoped to the path zz, which no repository holds, has failed with
\* 404 at its probe.
C7_Witness ==
    /\ pc = "done"
    /\ req.path = pZz
    /\ Took("probe")
    /\ outcome.kind = "http"
    /\ outcome.status_code = 404

\* C8: when a walk has returned its text, for every listing that succeeded
\* (of a directory, or of the one file the walk is scoped to): a file whose
\* name ends with an excluded extension is neither in the node of the listed
\* path nor on a line of the text; every other file is in both; every
\* subdirectory, whatever its name, was walked and is in both.
C8_ExcludedFilesOnlyAreDropped ==
    ReturnedFromWalk =>
        \A p \in WalkPaths :
           (WasListed(p) /\ ~ ListingRaised(p)) =>
              \A e \in repo :
                 (ParentOf(e.path) = p \/ e = File(p)) =>
                    LET name == NameOf(e.path)
                        level == IF e = File(p) THEN 1
                                 ELSE RelativeDepth(e.path, req.path)
                        line == Repeat(<<" ">>, 2 * level) \o name
                        children == Range(frames[p].result.children)
                        lines == Range(LinesOf(outcome.value))
                    IN  IF e.type = "dir"
                        THEN /\ frames[e.path].status = "done"
                             /\ frames[e.path].result \in children
                             /\ line \in lines
                        ELSE IF HasExcludedExtension(name)
                        THEN /\ \A c \in children : c.name # name
                             /\ line \notin lines
                        ELSE /\ FileEntry(name, e.path) \in children
                             /\ line \in lines

\* The whole repository has been walked from the root: it holds an excluded
\* file, files that stay and a directory named like an excluded file.
C8_Witness ==
    /\ ReturnedFromWalk
    /\ req.path = None
    /\ repo = Universe
    /\ failing = {}

\* Two lines of the same level with only deeper lines between them are
\* consecutive siblings: their names ascend.
SiblingsAscending(lines) ==
    \A i, j \in 1..Len(lines) :
       (/\ i < j
        /\ LevelOfLine(lines[i]) = LevelOfLine(lines[j])
        /\ \A k \in (i + 1)..(j - 1) :
              LevelOfLine(lines[k]) > LevelOfLine(lines[i])) =>
          StrLess(NameOnLine(lines[i]), NameOnLine(lines[j]))

\* C9: the text a walk returns lists the siblings of every level in
\* ascending order of name, and it is the text that the last walk with the
\* same scope path returned, in whatever order the listings of the two
\* walks came back.
C9_SortedWhateverTheCompletionOrder ==
    ReturnedFromWalk =>
        /\ SiblingsAscending(LinesOf(outcome.value))
        /\ prev[req.path].walked => outcome.value = prev[req.path].value

\* A second walk of the whole repository has returned, in which the listing
\* of i.svg came back before that of a, its elder sibling task.
C9_Witness ==
    /\ ReturnedFromWalk
    /\ prev[req.path].walked
    /\ Len(listed) >= 3
    /\ listed[2] = pISvg
    /\ WasListed(pA)
    /\ Len(LinesOf(outcome.value)) >= 4

\* The steps of a call that missed the cache and came back from the walk.
CompletedSteps(path) ==
    <<"lookup", "get_repo">>
        \o (IF Truthy(path) THEN <<"probe">> ELSE <<>>) \o <<"walk">>

\* The entry a call that returns the text value leaves in the cache.
EntryOf(value) == [value |-> Encode(value), ttl |-> CacheTtl]

\* C11: the cache holds an entry for a key only if an earlier call whose
\* project id and scope path form that key missed the cache and completed
\* project lookup, handle resolution, existence probe, walk and format
\* without raising; the entry is exactly the string that call returned,
\* stored with a TTL of 3600 seconds.  A call that hits the cache, and a
\* call that fails with any error, leaves the cache unchanged.  A call hits
\* when the value it reads passes the test of line 367 and misses otherwise.
C11_CacheIsWrittenOnlyByCompletedMisses ==
    /\ \A k \in Keys :
          cache[k] # NoEntry =>
              /\ stored_by[k] \in ScopePaths
              /\ cache_key(ProjectId, stored_by[k]) = k
              /\ cache[k].ttl = 3600
              /\ pc = "idle" =>
                    /\ prev[stored_by[k]].fresh
                    /\ cache[k] = EntryOf(prev[stored_by[k]].value)
                    /\ Decode(cache[k].value) = prev[stored_by[k]].value
    /\ pc # "done" => cache = cache0
    /\ (pc = "done" /\ (hit \/ outcome.kind # "ok")) => cache = cache0
    /\ ReturnedFromWalk =>
          /\ steps = CompletedSteps(req.path)
          /\ frames[start_path].status = "done"
          /\ stored_by[cache_key(req.project_id, req.path)] = req.path
          /\ cache = [cache0 EXCEPT ![cache_key(req.project_id, req.path)] =
                                    EntryOf(outcome.value)]

\* The second call of a behaviour walks the subtree of a and stores its text
\* while the entry an earlier call stored for the root scope stays in place.
C11_Witness ==
    /\ ReturnedFromWalk
    /\ req.path = pA
    /\ calls = 2
    /\ Len(outcome.value) > 0
    /\ cache[cache_key(ProjectId, pA)] = EntryOf(outcome.value)
    /\ cache0[cache_key(ProjectId, pA)] = NoEntry
    /\ cache0[cache_key(ProjectId, None)] # NoEntry
    /\ cache[cache_key(ProjectId, None)] = cache0[cache_key(ProjectId, None)]

(***************************************************************************)
(* _format_tree_structure on its own, applied to any tree                  *)
(***************************************************************************)
\* Bound: the most children a node of a drawn tree has.
MaxKids == 2

\* The sequences over S of length at most n.
SeqsUpTo(S, n) == UNION {[1..k -> S] : k \in 0..n}

LeafNodes == {FileEntry(<<"a">>, <<"a">>), FileEntry(<<"b">>, <<"b">>)}
InnerNodes ==
    LeafNodes
      \cup {DirectoryNode(<<"a", "b">>, ch) : ch \in SeqsUpTo(LeafNodes, MaxKids)}
UpperNodes ==
    InnerNodes \cup {DirectoryNode(<<"c">>, ch) : ch \in SeqsUpTo(InnerNodes, 1)}
Trees == {DirectoryNode(RepoName, ch) : ch \in SeqsUpTo(UpperNodes, MaxKids)}

FormatInit ==
    /\ repo = {}
    /\ failing = {}
    /\ project = NoProject
    /\ cache = [k \in Keys |-> NoEntry]
    /\ pc = "idle"
    /\ req = NoRequest
    /\ frames = NoFrames
    /\ listed = <<>>
    /\ steps = <<>>
    /\ outcome = NoOutcome
    /\ hit = FALSE
    /\ cache0 = cache
    /\ prev = [s \in ScopePaths |-> NoPrev]
    /\ stored_by = [k \in Keys |-> None]
    /\ calls = 0
    /\ tree \in Trees
    /\ text = None

\* One call of _format_tree_structure(tree).
Format ==
    /\ text = None
    /\ text' = format_tree_structure(tree)
    /\ UNCHANGED <<service_vars, tree>>

FormatNext == Format

FormatSpec == FormatInit /\ [][FormatNext]_vars

(***************************************************************************)
(* Properties of the formatter                                             *)
(***************************************************************************)
ChildrenOf(node) == IF "children" \in DOMAIN node THEN node.children ELSE <<>>

\* The number of nodes of a subtree, its root included.
RECURSIVE NodeCount(_)
RECURSIVE NodeCountAll(_)
NodeCount(node) == 1 + NodeCountAll(ChildrenOf(node))
NodeCountAll(nodes) ==
    IF nodes = <<>> THEN 0 ELSE NodeCount(Head(nodes)) + NodeCountAll(Tail(nodes))

WithoutIndex(seq, i) == SubSeq(seq, 1, i - 1) \o SubSeq(seq, i + 1, Len(seq))

\* lines is a depth-first pre-order listing of the subtrees of nodes, taken
\* in some order of the siblings: each node one line, its name after 2*d
\* spaces at level d, followed at once by the lines of its own children.
RECURSIVE IsPreOrder(_, _, _)
IsPreOrder(lines, nodes, d) ==
    IF nodes = <<>> THEN lines = <<>>
    ELSE \E i \in 1..Len(nodes) :
            LET n == NodeCount(nodes[i])
            IN  /\ Len(lines) >= n
                /\ lines[1] = Repeat(<<" ">>, 2 * d) \o nodes[i].name
                /\ IsPreOrder(SubSeq(lines, 2, n), ChildrenOf(nodes[i]), d + 1)
                /\ IsPreOrder(SubSeq(lines, n + 1, Len(lines)),
                              WithoutIndex(nodes, i), d)

\* C10: the output of _format_tree_structure has exactly one line per
\* descendant of the root and none for the root, in depth-first pre-order,
\* the line of a node at level d >= 1 being its name after exactly 2*d
\* spaces; a root without children gives the empty string.
C10_FormatIsIndentedPreOrder ==
    text # None =>
        /\ IsPreOrder(LinesOf(text), ChildrenOf(tree), 1)
        /\ Len(LinesOf(text)) = NodeCount(tree) - 1
        /\ (ChildrenOf(tree) = <<>> => text = <<>>)

\* A tree three levels deep has been formatted: a line with six spaces.
C10_Witness ==
    /\ text # None
    /\ \E i \in 1..Len(LinesOf(text)) :
          LinesOf(text)[i] = Repeat(<<" ">>, 6) \o <<"a">>
    /\ \E i \in 1..Len(LinesOf(text)) :
          LinesOf(text)[i] = Repeat(<<" ">>, 2) \o <<"b">>

====
